---------------------------- MODULE Spec2Model ----------------------------
(***************************************************************************)
(* Model of src/code/src/my_script.py: the e-mail analysis and routing     *)
(* pipeline (main / process_email and the functions they call).            *)
(*                                                                         *)
(* A Python str is modelled as a sequence of atoms.  An atom is either one *)
(* special character (a whitespace character, ":", "<", ">", an undecodable*)
(* byte) or a chunk of ordinary characters.  Chunks with an inner blank    *)
(* ("Fraud Report") are used only for labels and dictionary keys, which no *)
(* operation of the program splits.  The operations that look inside a     *)
(* string (strip, split, splitlines, re.sub, "in", decode) are computed on *)
(* the atoms the way Python computes them on characters.                   *)
(*                                                                         *)
(* The name client (lines 124, 148, 177, 200, 223) is bound outside this   *)
(* file.  client.chat_model.predict(prompt).text either yields a string or *)
(* raises (a NameError when client is unbound is one such raise); both     *)
(* outcomes are offered at every call.                                     *)
(***************************************************************************)
EXTENDS Integers, Sequences, FiniteSets, TLC

VARIABLES
    pc,                 \* position of main / process_email
    idx,                \* number of directory entries main's loop has taken
    files,              \* what kind of input each entry taken so far was
    email_bytes,        \* the entry being processed
    outcome,            \* per entry: "skipped", "read_error", "process_error", "routed"
    log,                \* the steps executed, in order, as <<entry, step>>
    assigned,           \* the locals of the current process_email frame that are bound
    email_metadata,     \* process_email locals ...
    email_content,
    cleaned_content,
    category,
    entities,
    intent,
    sentiment,
    summary,
    destination,
    actions,
    expected_entities,
    similarity_score,
    resp                \* per analysis request: what the capability call did

vars == <<pc, idx, files, email_bytes, outcome, log, assigned, email_metadata, email_content,
          cleaned_content, category, entities, intent, sentiment, summary,
          destination, actions, expected_entities, similarity_score, resp>>

(***************************************************************************)
(* Bounds of the model.                                                    *)
(***************************************************************************)
NumFiles    == 2        \* directory entries in one batch
MaxTextLen  == 6        \* longest body given to clean_email_content on its own
MaxReplyLen == 6        \* longest reply given to the entity parser on its own
MaxKeys     == 3        \* keys per mapping given to calculate_similarity_score on its own

(***************************************************************************)
(* Strings.                                                                *)
(***************************************************************************)
Whitespace == {" ", "\n", "\r", "\t"}
LineBreaks == {"\n", "\r"}
InvalidByte == "\\xff"

T(s) == <<s>>

Range(s) == {s[i] : i \in DOMAIN s}

\* the leading atoms of s up to, not including, the first atom in the set stop
RECURSIVE Prefix(_, _)
Prefix(s, stop) ==
    IF s = <<>> \/ Head(s) \in stop THEN <<>> ELSE <<Head(s)>> \o Prefix(Tail(s), stop)

\* s from its first atom in the set stop on (empty when there is none)
RECURSIVE Suffix(_, _)
Suffix(s, stop) ==
    IF s = <<>> \/ Head(s) \in stop THEN s ELSE Suffix(Tail(s), stop)

\* str.strip() with no argument
strip(s) ==
    LET inner == {i \in DOMAIN s : s[i] \notin Whitespace}
    IN  IF inner = {} THEN <<>>
        ELSE SubSeq(s, CHOOSE i \in inner : \A j \in inner : i <= j,
                       CHOOSE i \in inner : \A j \in inner : j <= i)

\* str.split() with no argument: the maximal runs of non-whitespace
RECURSIVE split(_)
split(s) ==
    IF s = <<>> THEN <<>>
    ELSE IF Head(s) \in Whitespace THEN split(Tail(s))
    ELSE <<Prefix(s, Whitespace)>> \o split(Suffix(s, Whitespace))

RECURSIVE join(_, _)
join(sep, words) ==
    IF words = <<>> THEN <<>>
    ELSE IF Len(words) = 1 THEN Head(words)
    ELSE Head(words) \o sep \o join(sep, Tail(words))

\* what follows the first line of s and the line break that ends it
AfterLine(s) ==
    LET rest == Suffix(s, LineBreaks)
    IN  IF rest = <<>> THEN <<>>
        ELSE IF Len(rest) >= 2 /\ rest[1] = "\r" /\ rest[2] = "\n" THEN Tail(Tail(rest))
        ELSE Tail(rest)

\* str.splitlines(): "\n", "\r" and "\r\n" end a line; no empty last line
RECURSIVE splitlines(_)
splitlines(s) ==
    IF s = <<>> THEN <<>>
    ELSE <<Prefix(s, LineBreaks)>> \o splitlines(AfterLine(s))

\* bytes.decode("utf-8", errors="ignore"): undecodable bytes are dropped
decode(b) == SelectSeq(b, LAMBDA c : c # InvalidByte)

(***************************************************************************)
(* clean_email_content                                                     *)
(***************************************************************************)
\* a buggy variant: the tag body may not contain "<" (pattern <[^<>]+>)
OpensTag_inner(s) ==
    /\ Head(s) = "<"
    /\ Len(s) >= 2 /\ s[2] \notin {"<", ">"}
    /\ Suffix(Tail(s), {"<", ">"}) # <<>>
    /\ Head(Suffix(Tail(s), {"<", ">"})) = ">"

\* the pattern <[^>]+> matches at the head of s: a "<", one or more atoms
\* other than ">" (greedily, so up to the next ">"), and that ">"
OpensTag(s) ==
    /\ Head(s) = "<"
    /\ Len(s) >= 2 /\ s[2] # ">"
    /\ ">" \in Range(s)

\* re.sub(r"<[^>]+>", "", s): leftmost matches, left to right, not overlapping
RECURSIVE sub_tags(_)
sub_tags(s) ==
    IF s = <<>> THEN <<>>
    ELSE IF OpensTag(s) THEN sub_tags(Tail(Suffix(s, {">"})))
    ELSE <<Head(s)>> \o sub_tags(Tail(s))

clean_email_content(email_content_arg) ==
    join(<<" ">>, split(sub_tags(email_content_arg)))

(***************************************************************************)
(* The fixed vocabularies (lines 23-51) and defaults.                      *)
(***************************************************************************)
EMAIL_CATEGORIES ==
    {T("Account Inquiry"), T("Transaction Dispute"), T("Loan Application"),
     T("Mortgage Inquiry"), T("Fraud Report"), T("Service Request"),
     T("Complaint"), T("Feedback"), T("General Inquiry")}

EMAIL_ENTITIES ==
    {T("Account Number"), T("Transaction ID"), T("Customer Name"),
     T("Phone Number"), T("Email Address"), T("Date"), T("Amount"),
     T("Product Type")}

EMAIL_INTENTS ==
    {T("Request Information"), T("Report a Problem"), T("Apply for a Service"),
     T("Provide Feedback"), T("Seek Help")}

EMAIL_SENTIMENTS == {T("Positive"), T("Negative"), T("Neutral")}

\* a dict is a function; the empty dict is the function with the empty domain
EmptyDict == <<>>

DictSet(d, k, v) == [x \in (DOMAIN d) \cup {k} |-> IF x = k THEN v ELSE d[x]]

(***************************************************************************)
(* The text-completion capability: one call either raises or returns text. *)
(***************************************************************************)
Raised == [status |-> "raised", text |-> <<>>]
Returned(t) == [status |-> "ok", text |-> t]
NotCalled == [status |-> "none", text |-> <<>>]

Requests == {"classify", "entities", "intent", "sentiment", "summary"}

(***************************************************************************)
(* classify_email, recognize_intent, analyze_sentiment, summarize_email:   *)
(* the value returned for one outcome r of the capability call.            *)
(***************************************************************************)
\* a buggy variant: the reply is returned without .strip()
classify_email_nostrip(r) ==
    IF r.status = "ok" THEN r.text ELSE T("General Inquiry")

classify_email(r) ==
    IF r.status = "ok" THEN strip(r.text) ELSE T("General Inquiry")

recognize_intent(r) ==
    IF r.status = "ok" THEN strip(r.text) ELSE T("General Inquiry")

analyze_sentiment(r) ==
    IF r.status = "ok" THEN strip(r.text) ELSE T("Neutral")

summarize_email(r) ==
    IF r.status = "ok" THEN strip(r.text) ELSE T("Summary not available.")

(***************************************************************************)
(* extract_entities                                                        *)
(***************************************************************************)
\* line.split(":", 1) of a line that contains ":"
KeyPart(line) == Prefix(line, {":"})
ValuePart(line) == Tail(Suffix(line, {":"}))

\* a buggy variant of the loop: an earlier value of a key is kept
RECURSIVE parse_lines_keep_first(_, _)
parse_lines_keep_first(lines, d) ==
    IF lines = <<>> THEN d
    ELSE LET line == Head(lines)
             key  == strip(KeyPart(line))
         IN  IF ":" \in Range(line) /\ key \notin DOMAIN d
             THEN parse_lines_keep_first(Tail(lines),
                                         DictSet(d, key, strip(ValuePart(line))))
             ELSE parse_lines_keep_first(Tail(lines), d)

\* the loop of lines 151-154, from the dict d built so far
RECURSIVE parse_lines(_, _)
parse_lines(lines, d) ==
    IF lines = <<>> THEN d
    ELSE LET line == Head(lines)
         IN  IF ":" \in Range(line)
             THEN parse_lines(Tail(lines),
                              DictSet(d, strip(KeyPart(line)), strip(ValuePart(line))))
             ELSE parse_lines(Tail(lines), d)

extract_entities(r) ==
    IF r.status = "ok"
    THEN parse_lines(splitlines(r.text), EmptyDict)
    ELSE [e \in EMAIL_ENTITIES |-> T("N/A")]

(***************************************************************************)
(* route_email                                                             *)
(***************************************************************************)
Ticket(system, priority) == [system |-> system, priority |-> priority]
Ack(type, to) == [type |-> type, to |-> to]

\* a buggy variant: a complaint is escalated on the intent, not the sentiment
route_email_on_intent(category_arg, entities_arg, intent_arg, sentiment_arg, summary_arg, email_metadata_arg) ==
    IF category_arg = T("Fraud Report")
    THEN [destination |-> "Fraud Department",
          actions |-> [create_ticket |-> Ticket("CRM", "High"),
                       send_acknowledgment |->
                           Ack("FraudReportReceived", email_metadata_arg.sender_email)]]
    ELSE IF category_arg = T("Loan Application")
    THEN [destination |-> "Loan Department",
          actions |-> [create_ticket |-> Ticket("LoanOriginationSystem", "Medium")]]
    ELSE IF category_arg = T("Account Inquiry")
    THEN [destination |-> "Customer Service Department",
          actions |-> [send_acknowledgment |->
                           Ack("AccountInquiryReceived", email_metadata_arg.sender_email)]]
    ELSE IF category_arg = T("Transaction Dispute")
    THEN [destination |-> "Dispute Resolution Department",
          actions |-> [create_ticket |-> Ticket("DisputeTrackingSystem", "High")]]
    ELSE IF category_arg = T("Mortgage Inquiry")
    THEN [destination |-> "Mortgage Department",
          actions |-> [create_ticket |-> Ticket("MortgageOriginationSystem", "Medium")]]
    ELSE IF category_arg = T("Service Request")
    THEN [destination |-> "Customer Service Department",
          actions |-> [create_ticket |-> Ticket("CRM", "Medium")]]
    ELSE IF category_arg = T("Complaint")
    THEN [destination |-> "Customer Relations Department",
          actions |-> IF intent_arg = T("Report a Problem")
                      THEN [create_ticket |-> Ticket("CRM", "High"), escalate |-> TRUE]
                      ELSE [create_ticket |-> Ticket("CRM", "High")]]
    ELSE IF category_arg = T("Feedback")
    THEN [destination |-> "Product Development Department", actions |-> EmptyDict]
    ELSE IF category_arg = T("General Inquiry")
    THEN [destination |-> "Customer Service Department", actions |-> EmptyDict]
    ELSE [destination |-> "General Inquiry Department", actions |-> EmptyDict]

\* a buggy variant: the service-request ticket gets the priority of the row above
route_email_wrong_priority(category_arg, entities_arg, intent_arg, sentiment_arg, summary_arg, email_metadata_arg) ==
    IF category_arg = T("Fraud Report")
    THEN [destination |-> "Fraud Department",
          actions |-> [create_ticket |-> Ticket("CRM", "High"),
                       send_acknowledgment |->
                           Ack("FraudReportReceived", email_metadata_arg.sender_email)]]
    ELSE IF category_arg = T("Loan Application")
    THEN [destination |-> "Loan Department",
          actions |-> [create_ticket |-> Ticket("LoanOriginationSystem", "Medium")]]
    ELSE IF category_arg = T("Account Inquiry")
    THEN [destination |-> "Customer Service Department",
          actions |-> [send_acknowledgment |->
                           Ack("AccountInquiryReceived", email_metadata_arg.sender_email)]]
    ELSE IF category_arg = T("Transaction Dispute")
    THEN [destination |-> "Dispute Resolution Department",
          actions |-> [create_ticket |-> Ticket("DisputeTrackingSystem", "High")]]
    ELSE IF category_arg = T("Mortgage Inquiry")
    THEN [destination |-> "Mortgage Department",
          actions |-> [create_ticket |-> Ticket("MortgageOriginationSystem", "Medium")]]
    ELSE IF category_arg = T("Service Request")
    THEN [destination |-> "Customer Service Department",
          actions |-> [create_ticket |-> Ticket("CRM", "High")]]
    ELSE IF category_arg = T("Complaint")
    THEN [destination |-> "Customer Relations Department",
          actions |-> IF sentiment_arg = T("Negative")
                      THEN [create_ticket |-> Ticket("CRM", "High"), escalate |-> TRUE]
                      ELSE [create_ticket |-> Ticket("CRM", "High")]]
    ELSE IF category_arg = T("Feedback")
    THEN [destination |-> "Product Development Department", actions |-> EmptyDict]
    ELSE IF category_arg = T("General Inquiry")
    THEN [destination |-> "Customer Service Department", actions |-> EmptyDict]
    ELSE [destination |-> "General Inquiry Department", actions |-> EmptyDict]

\* lines 253-297; the print of lines 294-296 changes no state
route_email(category_arg, entities_arg, intent_arg, sentiment_arg, summary_arg, email_metadata_arg) ==
    IF category_arg = T("Fraud Report")
    THEN [destination |-> "Fraud Department",
          actions |-> [create_ticket |-> Ticket("CRM", "High"),
                       send_acknowledgment |->
                           Ack("FraudReportReceived", email_metadata_arg.sender_email)]]
    ELSE IF category_arg = T("Loan Application")
    THEN [destination |-> "Loan Department",
          actions |-> [create_ticket |-> Ticket("LoanOriginationSystem", "Medium")]]
    ELSE IF category_arg = T("Account Inquiry")
    THEN [destination |-> "Customer Service Department",
          actions |-> [send_acknowledgment |->
                           Ack("AccountInquiryReceived", email_metadata_arg.sender_email)]]
    ELSE IF category_arg = T("Transaction Dispute")
    THEN [destination |-> "Dispute Resolution Department",
          actions |-> [create_ticket |-> Ticket("DisputeTrackingSystem", "High")]]
    ELSE IF category_arg = T("Mortgage Inquiry")
    THEN [destination |-> "Mortgage Department",
          actions |-> [create_ticket |-> Ticket("MortgageOriginationSystem", "Medium")]]
    ELSE IF category_arg = T("Service Request")
    THEN [destination |-> "Customer Service Department",
          actions |-> [create_ticket |-> Ticket("CRM", "Medium")]]
    ELSE IF category_arg = T("Complaint")
    THEN [destination |-> "Customer Relations Department",
          actions |-> IF sentiment_arg = T("Negative")
                      THEN [create_ticket |-> Ticket("CRM", "High"), escalate |-> TRUE]
                      ELSE [create_ticket |-> Ticket("CRM", "High")]]
    ELSE IF category_arg = T("Feedback")
    THEN [destination |-> "Product Development Department", actions |-> EmptyDict]
    ELSE IF category_arg = T("General Inquiry")
    THEN [destination |-> "Customer Service Department", actions |-> EmptyDict]
    ELSE [destination |-> "General Inquiry Department", actions |-> EmptyDict]

(***************************************************************************)
(* calculate_similarity_score.  The float result is kept as the fraction   *)
(* [num, den]; 0.0 is [num |-> 0, den |-> 1].                              *)
(***************************************************************************)
\* the loop of lines 316-320 over the keys still to visit, from the counts so far:
\* <<match_count, total_count>>
RECURSIVE count_keys(_, _, _, _, _)
count_keys(keys, extracted, expected, match_count, total_count) ==
    IF keys = {} THEN <<match_count, total_count>>
    ELSE LET key == CHOOSE k \in keys : TRUE
         IN  IF key \in DOMAIN extracted
             THEN count_keys(keys \ {key}, extracted, expected,
                             IF extracted[key] = expected[key]
                             THEN match_count + 1 ELSE match_count,
                             total_count + 1)
             ELSE count_keys(keys \ {key}, extracted, expected,
                             match_count, total_count)

\* a buggy variant: total_count counts every key of expected
calculate_similarity_score_all_keys(extracted_entities, expected_arg) ==
    LET counts == count_keys(DOMAIN expected_arg, extracted_entities, expected_arg, 0, 0)
        total  == Cardinality(DOMAIN expected_arg)
    IN  IF total = 0 THEN [num |-> 0, den |-> 1]
        ELSE [num |-> counts[1], den |-> total]

calculate_similarity_score(extracted_entities, expected_arg) ==
    LET counts == count_keys(DOMAIN expected_arg, extracted_entities, expected_arg, 0, 0)
    IN  IF counts[2] = 0 THEN [num |-> 0, den |-> 1]
        ELSE [num |-> counts[1], den |-> counts[2]]

(***************************************************************************)
(* The inputs: directory entries and the messages in them.                 *)
(***************************************************************************)
SampleBody == <<"<", "p", ">", "Hello", " ", " ", " ", "\n", " ", "World", "<", "/p", ">">>
OtherBody  == <<"Dear", " ", InvalidByte, "Bank", "\n">>

PlainPart(b) == [ctype |-> "text/plain", multipart |-> FALSE, payload |-> b, filename |-> ""]
HtmlPart(b)  == [ctype |-> "text/html", multipart |-> FALSE, payload |-> b, filename |-> ""]
Attachment   == [ctype |-> "application/octet-stream", multipart |-> FALSE,
                 payload |-> <<"dummy">>, filename |-> "document.txt"]
MixedRoot    == [ctype |-> "multipart/mixed", multipart |-> TRUE,
                 payload |-> <<>>, filename |-> ""]

\* message.walk(): the message itself, then its parts, depth first
SinglePlain  == <<PlainPart(SampleBody)>>
MixedNoPlain == <<MixedRoot, HtmlPart(SampleBody)>>
MixedPlain   == <<MixedRoot, HtmlPart(SampleBody), PlainPart(OtherBody), Attachment>>

Entry(eml, fault, headers, walk) ==
    [eml |-> eml, fault |-> fault, headers |-> headers, walk |-> walk]

\* the entries the directory listing may hold
DirEntries ==
    {Entry(FALSE, "none", TRUE, SinglePlain),
     Entry(TRUE, "read", TRUE, SinglePlain),
     Entry(TRUE, "parse", TRUE, SinglePlain),
     Entry(TRUE, "none", TRUE, SinglePlain),
     Entry(TRUE, "none", TRUE, MixedNoPlain),
     Entry(TRUE, "none", FALSE, MixedPlain)}

is_multipart(msg) == msg.walk[1].multipart

HasPlainPart(msg) == \E i \in DOMAIN msg.walk : msg.walk[i].ctype = "text/plain"

\* what kind of input an entry is
Kind(e) ==
    IF ~e.eml THEN "not_eml"
    ELSE IF e.fault = "read" THEN "unreadable"
    ELSE IF e.fault = "parse" THEN "unparsable"
    ELSE IF is_multipart(e) /\ ~HasPlainPart(e) THEN "no_plain_part"
    ELSE "ok"

\* str(email_message.get(h)): a missing header gives "None"
Header(msg, value) == IF msg.headers THEN value ELSE "None"

extract_email_metadata(msg) ==
    [sender_email |-> Header(msg, "customer@example.com"),
     subject      |-> Header(msg, "Urgent: Unauthorized Transaction"),
     timestamp    |-> Header(msg, "2024-07-24T10:00:00"),
     attachments  |-> IF is_multipart(msg)
                      THEN LET named == SelectSeq(msg.walk, LAMBDA part : part.filename # "")
                           IN  [i \in DOMAIN named |-> named[i].filename]
                      ELSE <<>>]

\* the payload of the first text/plain part of the walk (lines 344-348)
FirstPlainPayload(msg) ==
    LET i == CHOOSE i \in DOMAIN msg.walk :
                 /\ msg.walk[i].ctype = "text/plain"
                 /\ \A j \in 1..(i - 1) : msg.walk[j].ctype # "text/plain"
    IN  msg.walk[i].payload

\* the replies of the capability the pipeline is run against
ClassifyReplies ==
    {Returned(c) : c \in EMAIL_CATEGORIES}
    \cup {Returned(<<" ", "Complaint", "\n">>), Returned(T("Unknown")), Raised}
EntityReplies ==
    {Returned(<<"Account Number", ":", " ", "123", "\n", "Junk line", "\n",
                "Date", ":", "2024-01-01">>),
     Returned(<<"Account Number", ":", " ", "1234567890", "\n",
                "Transaction ID", ":", " ", "N/A", "\r", "\n",
                "Ticket", ":", "7", "\n",
                "Account Number", " ", ":", "1234567890", ":", "x">>),
     Raised}
IntentReplies == {Returned(<<"Report a Problem", "\n">>), Raised}
SentimentReplies ==
    {Returned(T("Positive")), Returned(<<" ", "Negative", "\n">>),
     Returned(T("negative")), Raised}
SummaryReplies ==
    {Returned(<<"\n", "Customer", " ", "reports", " ", "fraud.", "\n">>), Raised}

\* the literal of lines 379-388
ExpectedEntities ==
    [k \in EMAIL_ENTITIES |->
        CASE k = T("Account Number") -> T("1234567890")
          [] k = T("Transaction ID") -> T("N/A")
          [] k = T("Customer Name")  -> T("John Smith")
          [] k = T("Phone Number")   -> T("555-123-4567")
          [] k = T("Email Address")  -> T("customer@example.com")
          [] k = T("Date")           -> T("2024-07-24T10:00:00")
          [] k = T("Amount")         -> T("1000")
          [] k = T("Product Type")   -> T("N/A")]

(***************************************************************************)
(* The state machine: main's loop (lines 445-455) and process_email.       *)
(***************************************************************************)
NoMetadata == [sender_email |-> "", subject |-> "", timestamp |-> "", attachments |-> <<>>]
NoResp == [q \in Requests |-> NotCalled]
NoScore == [num |-> 0, den |-> 1]
NoEntry == Entry(FALSE, "none", FALSE, <<PlainPart(<<>>)>>)

\* a fresh process_email frame: no local is bound
FreshFrame ==
    /\ assigned' = {}
    /\ email_metadata' = NoMetadata
    /\ email_content' = <<>>
    /\ cleaned_content' = <<>>
    /\ category' = <<>>
    /\ entities' = EmptyDict
    /\ intent' = <<>>
    /\ sentiment' = <<>>
    /\ summary' = <<>>
    /\ destination' = ""
    /\ actions' = EmptyDict
    /\ expected_entities' = EmptyDict
    /\ similarity_score' = NoScore
    /\ resp' = NoResp

locals == <<assigned, email_metadata, email_content, cleaned_content, category,
            entities, intent, sentiment, summary, destination, actions,
            expected_entities, similarity_score, resp>>

Init ==
    /\ pc = "loop"
    /\ idx = 0
    /\ files = <<>>
    /\ email_bytes = NoEntry
    /\ outcome = <<>>
    /\ log = <<>>
    /\ assigned = {}
    /\ email_metadata = NoMetadata
    /\ email_content = <<>>
    /\ cleaned_content = <<>>
    /\ category = <<>>
    /\ entities = EmptyDict
    /\ intent = <<>>
    /\ sentiment = <<>>
    /\ summary = <<>>
    /\ destination = ""
    /\ actions = EmptyDict
    /\ expected_entities = EmptyDict
    /\ similarity_score = NoScore
    /\ resp = NoResp

Step(name) == log' = Append(log, <<idx, name>>)

\* the statement at `name` completes and binds the local v; control moves to `to`
Goto(name, to, v) ==
    /\ pc' = to
    /\ Step(name)
    /\ assigned' = assigned \cup v
    /\ UNCHANGED <<idx, files, email_bytes, outcome>>

\* a buggy variant: the exception leaves process_email and main and ends the run
ProcessError_abort(name) ==
    /\ pc' = "done"
    /\ Step(name)
    /\ outcome' = [outcome EXCEPT ![idx] = "process_error"]
    /\ UNCHANGED <<idx, files, email_bytes, locals>>

\* an exception inside process_email's try: the except of lines 392-393
ProcessError(name) ==
    /\ pc' = "loop"
    /\ Step(name)
    /\ outcome' = [outcome EXCEPT ![idx] = "process_error"]
    /\ UNCHANGED <<idx, files, email_bytes, locals>>

\* line 446-447: an entry whose name does not end in ".eml" is passed over
SkipEntry ==
    /\ pc = "loop" /\ idx < NumFiles
    /\ \E e \in DirEntries :
        /\ ~e.eml
        /\ email_bytes' = e
        /\ files' = Append(files, Kind(e))
    /\ idx' = idx + 1
    /\ outcome' = Append(outcome, "skipped")
    /\ FreshFrame
    /\ UNCHANGED <<pc, log>>

\* lines 446-449: the next ".eml" entry is taken
OpenEntry ==
    /\ pc = "loop" /\ idx < NumFiles
    /\ \E e \in DirEntries :
        /\ e.eml
        /\ email_bytes' = e
        /\ files' = Append(files, Kind(e))
    /\ idx' = idx + 1
    /\ outcome' = Append(outcome, "pending")
    /\ pc' = "read"
    /\ FreshFrame
    /\ UNCHANGED log

\* lines 450-452, and the except of lines 454-455 when the read raises
ReadFile ==
    /\ pc = "read"
    /\ IF email_bytes.fault = "read"
       THEN /\ pc' = "loop"
            /\ Step("read_error")
            /\ outcome' = [outcome EXCEPT ![idx] = "read_error"]
            /\ UNCHANGED <<idx, files, email_bytes, locals>>
       ELSE /\ Goto("read", "metadata", {})
            /\ UNCHANGED <<email_metadata, email_content, cleaned_content, category,
                           entities, intent, sentiment, summary, destination, actions,
                           expected_entities, similarity_score, resp>>

\* line 336
ExtractMetadata ==
    /\ pc = "metadata"
    /\ IF email_bytes.fault = "parse"
       THEN ProcessError("error")
       ELSE /\ Goto("metadata", "body", {"email_metadata"})
            /\ email_metadata' = extract_email_metadata(email_bytes)
            /\ UNCHANGED <<email_content, cleaned_content, category,
                           entities, intent, sentiment, summary, destination, actions,
                           expected_entities, similarity_score, resp>>

\* lines 340-351: email_content is bound only when a body is found
SelectBody ==
    /\ pc = "body"
    /\ IF is_multipart(email_bytes)
       THEN IF HasPlainPart(email_bytes)
            THEN /\ Goto("body", "decode", {"email_content"})
                 /\ email_content' = FirstPlainPayload(email_bytes)
            ELSE /\ Goto("body", "decode", {})
                 /\ UNCHANGED email_content
       ELSE /\ Goto("body", "decode", {"email_content"})
            /\ email_content' = email_bytes.walk[1].payload
    /\ UNCHANGED <<email_metadata, cleaned_content, category,
                   entities, intent, sentiment, summary, destination, actions,
                   expected_entities, similarity_score, resp>>

\* line 352: reading an unbound local raises UnboundLocalError
DecodeBody ==
    /\ pc = "decode"
    /\ IF "email_content" \notin assigned
       THEN ProcessError("error")
       ELSE /\ Goto("decode", "clean", {})
            /\ email_content' = decode(email_content)
            /\ UNCHANGED <<email_metadata, cleaned_content, category,
                           entities, intent, sentiment, summary, destination, actions,
                           expected_entities, similarity_score, resp>>

\* line 355
Clean ==
    /\ pc = "clean"
    /\ Goto("clean", "classify", {"cleaned_content"})
    /\ cleaned_content' = clean_email_content(email_content)
    /\ UNCHANGED <<email_metadata, email_content, category,
                   entities, intent, sentiment, summary, destination, actions,
                   expected_entities, similarity_score, resp>>

\* line 359
Classify ==
    /\ pc = "classify"
    /\ Goto("classify", "entities", {"category"})
    /\ \E r \in ClassifyReplies :
        /\ resp' = [resp EXCEPT !["classify"] = r]
        /\ category' = classify_email(r)
    /\ UNCHANGED <<email_metadata, email_content, cleaned_content,
                   entities, intent, sentiment, summary, destination, actions,
                   expected_entities, similarity_score>>

\* line 360, against the replies in R
ExtractEntities(R) ==
    /\ pc = "entities"
    /\ Goto("entities", "intent", {"entities"})
    /\ \E r \in R :
        /\ resp' = [resp EXCEPT !["entities"] = r]
        /\ entities' = extract_entities(r)
    /\ UNCHANGED <<email_metadata, email_content, cleaned_content, category,
                   intent, sentiment, summary, destination, actions,
                   expected_entities, similarity_score>>

Entities == ExtractEntities(EntityReplies)

\* line 361
Intent ==
    /\ pc = "intent"
    /\ Goto("intent", "sentiment", {"intent"})
    /\ \E r \in IntentReplies :
        /\ resp' = [resp EXCEPT !["intent"] = r]
        /\ intent' = recognize_intent(r)
    /\ UNCHANGED <<email_metadata, email_content, cleaned_content, category,
                   entities, sentiment, summary, destination, actions,
                   expected_entities, similarity_score>>

\* a buggy variant: the routing is reached with the summary still to make
Sentiment_then_route ==
    /\ pc = "sentiment"
    /\ Goto("sentiment", "route", {"sentiment"})
    /\ \E r \in SentimentReplies :
        /\ resp' = [resp EXCEPT !["sentiment"] = r]
        /\ sentiment' = analyze_sentiment(r)
    /\ UNCHANGED <<email_metadata, email_content, cleaned_content, category,
                   entities, intent, summary, destination, actions,
                   expected_entities, similarity_score>>

\* line 362
Sentiment ==
    /\ pc = "sentiment"
    /\ Goto("sentiment", "summarize", {"sentiment"})
    /\ \E r \in SentimentReplies :
        /\ resp' = [resp EXCEPT !["sentiment"] = r]
        /\ sentiment' = analyze_sentiment(r)
    /\ UNCHANGED <<email_metadata, email_content, cleaned_content, category,
                   entities, intent, summary, destination, actions,
                   expected_entities, similarity_score>>

\* a buggy variant: the call is made outside a try, so a raise leaves the function
Summarize_unguarded ==
    /\ pc = "summarize"
    /\ \E r \in SummaryReplies :
        IF r.status = "raised"
        THEN ProcessError("error")
        ELSE /\ Goto("summarize", "route", {"summary"})
             /\ resp' = [resp EXCEPT !["summary"] = r]
             /\ summary' = summarize_email(r)
             /\ UNCHANGED <<email_metadata, email_content, cleaned_content, category,
                            entities, intent, sentiment, destination, actions,
                            expected_entities, similarity_score>>

\* line 363
Summarize ==
    /\ pc = "summarize"
    /\ Goto("summarize", "route", {"summary"})
    /\ \E r \in SummaryReplies :
        /\ resp' = [resp EXCEPT !["summary"] = r]
        /\ summary' = summarize_email(r)
    /\ UNCHANGED <<email_metadata, email_content, cleaned_content, category,
                   entities, intent, sentiment, destination, actions,
                   expected_entities, similarity_score>>

\* lines 372-374
Route ==
    /\ pc = "route"
    /\ Goto("route", "expected", {"destination", "actions"})
    /\ LET decision == route_email(category, entities, intent, sentiment, summary,
                                   email_metadata)
       IN  /\ destination' = decision.destination
           /\ actions' = decision.actions
    /\ UNCHANGED <<email_metadata, email_content, cleaned_content, category,
                   entities, intent, sentiment, summary,
                   expected_entities, similarity_score, resp>>

\* lines 379-388
Expected ==
    /\ pc = "expected"
    /\ pc' = "score"
    /\ assigned' = assigned \cup {"expected_entities"}
    /\ expected_entities' = ExpectedEntities
    /\ UNCHANGED <<idx, files, email_bytes, outcome, log,
                   email_metadata, email_content, cleaned_content, category,
                   entities, intent, sentiment, summary, destination, actions,
                   similarity_score, resp>>

\* lines 389-390; process_email returns and main's loop goes on
Score ==
    /\ pc = "score"
    /\ pc' = "loop"
    /\ Step("score")
    /\ assigned' = assigned \cup {"similarity_score"}
    /\ similarity_score' = calculate_similarity_score(entities, expected_entities)
    /\ outcome' = [outcome EXCEPT ![idx] = "routed"]
    /\ UNCHANGED <<idx, files, email_bytes,
                   email_metadata, email_content, cleaned_content, category,
                   entities, intent, sentiment, summary, destination, actions,
                   expected_entities, resp>>

\* the loop of line 446 is exhausted: main returns (line 460)
Finish ==
    /\ pc = "loop" /\ idx = NumFiles
    /\ pc' = "done"
    /\ UNCHANGED <<idx, files, email_bytes, outcome, log, locals>>

Next ==
    \/ SkipEntry
    \/ OpenEntry
    \/ ReadFile
    \/ ExtractMetadata
    \/ SelectBody
    \/ DecodeBody
    \/ Clean
    \/ Classify
    \/ Entities
    \/ Intent
    \/ Sentiment
    \/ Summarize
    \/ Route
    \/ Expected
    \/ Score
    \/ Finish

Spec == Init /\ [][Next]_vars

\* main is one thread that runs to completion: every enabled step is taken
FairSpec == Spec /\ WF_vars(Next)

(***************************************************************************)
(* The pure functions on their own: the frame stands right before the call *)
(* and the arguments range over all small values.                          *)
(***************************************************************************)
Texts(alphabet, n) == UNION {[1..k -> alphabet] : k \in 0..n}

BodyAlphabet  == {"<", ">", "a", " ", "\n"}
ReplyAlphabet == {"k", "v", ":", " ", "\n", "\r"}
ScoreKeys     == {T("k1"), T("k2"), T("k3"), T("k4")}
ScoreValues   == {T("x"), T("y")}

Dicts(keys, values, n) ==
    UNION {[dom -> values] : dom \in {d \in SUBSET keys : Cardinality(d) <= n}}

HarnessEntry == Entry(TRUE, "none", TRUE, <<PlainPart(<<>>)>>)

\* the part of a frame the three calls below neither read nor write
HarnessFrame(at) ==
    /\ pc = at
    /\ idx = 1
    /\ files = <<"ok">>
    /\ email_bytes = HarnessEntry
    /\ outcome = <<"pending">>
    /\ log = <<>>
    /\ email_metadata = extract_email_metadata(HarnessEntry)
    /\ category = <<>>
    /\ intent = <<>>
    /\ sentiment = <<>>
    /\ summary = <<>>
    /\ destination = ""
    /\ actions = EmptyDict
    /\ similarity_score = NoScore
    /\ resp = NoResp

InitClean ==
    /\ HarnessFrame("clean")
    /\ assigned = {"email_metadata", "email_content"}
    /\ email_content \in Texts(BodyAlphabet, MaxTextLen)
    /\ cleaned_content = <<>>
    /\ entities = EmptyDict
    /\ expected_entities = EmptyDict

SpecClean == InitClean /\ [][Clean]_vars

AnyEntityReplies ==
    {Returned(t) : t \in Texts(ReplyAlphabet, MaxReplyLen)} \cup EntityReplies

InitEntities ==
    /\ HarnessFrame("entities")
    /\ assigned = {"email_metadata", "email_content", "cleaned_content"}
    /\ email_content = <<>>
    /\ cleaned_content = <<>>
    /\ entities = EmptyDict
    /\ expected_entities = EmptyDict

EntitiesAny == ExtractEntities(AnyEntityReplies)

SpecEntities == InitEntities /\ [][EntitiesAny]_vars

InitScore ==
    /\ HarnessFrame("score")
    /\ assigned = {"email_metadata", "email_content", "cleaned_content",
                   "entities", "expected_entities"}
    /\ email_content = <<>>
    /\ cleaned_content = <<>>
    /\ entities \in Dicts(ScoreKeys, ScoreValues, MaxKeys)
    /\ expected_entities \in Dicts(ScoreKeys, ScoreValues, MaxKeys)

SpecScore == InitScore /\ [][Score]_vars

(***************************************************************************)
(* Properties.                                                             *)
(***************************************************************************)
Routed == {"destination", "actions"} \subseteq assigned

\* C1: once route_email has returned, the destination and the action set are
\* exactly those of the routing table for the category, with the sender of the
\* metadata in each acknowledgment, and a complaint carries escalate = TRUE if
\* and only if the sentiment is exactly "Negative"; any category outside the
\* nine labels goes to the General Inquiry Department with no action.
C1_RoutingTable ==
    Routed =>
        LET sender == email_metadata.sender_email
            dest(d) == destination = d
            only(names) == DOMAIN actions = names
            ticket(system, priority) ==
                /\ "create_ticket" \in DOMAIN actions
                /\ actions["create_ticket"] = [system |-> system, priority |-> priority]
            ack(type) ==
                /\ "send_acknowledgment" \in DOMAIN actions
                /\ actions["send_acknowledgment"] = [type |-> type, to |-> sender]
        IN  /\ category = T("Fraud Report") =>
                /\ dest("Fraud Department")
                /\ only({"create_ticket", "send_acknowledgment"})
                /\ ticket("CRM", "High") /\ ack("FraudReportReceived")
            /\ category = T("Loan Application") =>
                /\ dest("Loan Department") /\ only({"create_ticket"})
                /\ ticket("LoanOriginationSystem", "Medium")
            /\ category = T("Account Inquiry") =>
                /\ dest("Customer Service Department")
                /\ only({"send_acknowledgment"}) /\ ack("AccountInquiryReceived")
            /\ category = T("Transaction Dispute") =>
                /\ dest("Dispute Resolution Department") /\ only({"create_ticket"})
                /\ ticket("DisputeTrackingSystem", "High")
            /\ category = T("Mortgage Inquiry") =>
                /\ dest("Mortgage Department") /\ only({"create_ticket"})
                /\ ticket("MortgageOriginationSystem", "Medium")
            /\ category = T("Service Request") =>
                /\ dest("Customer Service Department") /\ only({"create_ticket"})
                /\ ticket("CRM", "Medium")
            /\ category = T("Complaint") =>
                /\ dest("Customer Relations Department")
                /\ ticket("CRM", "High")
                /\ IF sentiment = T("Negative")
                   THEN /\ only({"create_ticket", "escalate"})
                        /\ actions["escalate"] = TRUE
                   ELSE only({"create_ticket"})
            /\ category = T("Feedback") =>
                dest("Product Development Department") /\ only({})
            /\ category = T("General Inquiry") =>
                dest("Customer Service Department") /\ only({})
            /\ category \notin EMAIL_CATEGORIES =>
                dest("General Inquiry Department") /\ only({})

\* a service request has been routed (the row a copied priority would break)
C1_Witness ==
    /\ Routed
    /\ category = T("Service Request")
    /\ destination = "Customer Service Department"

\* C2 (under FairSpec): the batch run reaches its end, and at its end every
\* entry of the batch has its outcome: an entry that cannot be read ended in
\* main's handler, a message whose processing raises ended in
\* process_email's handler, and every other message was routed, whatever
\* happened to the entries before it.
C2_FaultIsolation ==
    <>( /\ pc = "done"
        /\ Len(outcome) = NumFiles
        /\ \A i \in 1..NumFiles :
              outcome[i] = CASE files[i] = "not_eml"       -> "skipped"
                             [] files[i] = "unreadable"    -> "read_error"
                             [] files[i] = "unparsable"    -> "process_error"
                             [] files[i] = "no_plain_part" -> "process_error"
                             [] files[i] = "ok"            -> "routed" )

\* the run has ended, a message that raised is followed by one that was routed
C2_Witness ==
    /\ pc = "done"
    /\ \E i \in 1..(Len(outcome) - 1) :
        /\ outcome[i] \in {"read_error", "process_error"}
        /\ outcome[i + 1] = "routed"

\* C3: a message whose body was normalized never ends in the error outcome,
\* and once it is routed all five requests have been issued and each field
\* is the fixed default when its own call raised and the value parsed from
\* its own reply otherwise.
C3_IndependentDefaults ==
    /\ "cleaned_content" \in assigned => outcome[idx] # "process_error"
    /\ Routed =>
        /\ \A q \in Requests : resp[q].status \in {"ok", "raised"}
        /\ category = IF resp["classify"].status = "raised"
                      THEN <<"General Inquiry">> ELSE strip(resp["classify"].text)
        /\ intent = IF resp["intent"].status = "raised"
                    THEN <<"General Inquiry">> ELSE strip(resp["intent"].text)
        /\ sentiment = IF resp["sentiment"].status = "raised"
                       THEN <<"Neutral">> ELSE strip(resp["sentiment"].text)
        /\ summary = IF resp["summary"].status = "raised"
                     THEN <<"Summary not available.">> ELSE strip(resp["summary"].text)
        /\ entities = IF resp["entities"].status = "raised"
                      THEN [e \in EMAIL_ENTITIES |-> <<"N/A">>]
                      ELSE parse_lines(splitlines(resp["entities"].text), EmptyDict)
        /\ Cardinality(EMAIL_ENTITIES) = 8

\* a routed message with some calls failed and others answered
C3_Witness ==
    /\ Routed
    /\ resp["classify"].status = "raised"
    /\ resp["entities"].status = "ok"
    /\ resp["intent"].status = "raised"
    /\ resp["sentiment"].status = "ok"
    /\ resp["summary"].status = "raised"

\* C4: the decision of a routed message is the decision route_email gives for
\* the same category, sentiment and metadata with any other intent, summary
\* and entities.
C4_RoutingIgnoresIntent ==
    Routed =>
        \A r1 \in IntentReplies, r2 \in SummaryReplies, r3 \in EntityReplies :
            route_email(category, extract_entities(r3), recognize_intent(r1),
                        sentiment, summarize_email(r2), email_metadata)
            = [destination |-> destination, actions |-> actions]

\* a routed complaint whose intent reports a problem and whose sentiment is not Negative
C4_Witness ==
    /\ Routed
    /\ category = T("Complaint")
    /\ intent = T("Report a Problem")
    /\ sentiment = T("negative")
    /\ "escalate" \notin DOMAIN actions

\* C5 (the claim as stated): a multipart message with no text/plain part does
\* not end in the per-message error outcome.
C5_AbsentBodyRouted ==
    \A i \in DOMAIN files :
        files[i] = "no_plain_part" => outcome[i] # "process_error"

\* the position of the first ":" of a line that has one
FirstColon(line) ==
    CHOOSE i \in DOMAIN line : line[i] = ":" /\ \A j \in 1..(i - 1) : line[j] # ":"

\* C6: when the entity call returned, the mapping has exactly the trimmed
\* keys of the reply's lines that contain a colon (known entity kind or
\* not), each key cut at the first colon of its line, and each key maps to
\* the trimmed remainder of the last such line with that key; lines with no
\* colon add nothing.
C6_EntityParsing ==
    ("entities" \in assigned /\ resp["entities"].status = "ok") =>
        LET lines  == splitlines(resp["entities"].text)
            colon  == {i \in DOMAIN lines : \E j \in DOMAIN lines[i] : lines[i][j] = ":"}
            key(i) == strip(SubSeq(lines[i], 1, FirstColon(lines[i]) - 1))
            val(i) == strip(SubSeq(lines[i], FirstColon(lines[i]) + 1, Len(lines[i])))
        IN  /\ DOMAIN entities = {key(i) : i \in colon}
            /\ \A i \in colon :
                  (\A j \in colon : j > i => key(j) # key(i))
                      => entities[key(i)] = val(i)

\* a parsed reply in which a later line overwrote a key with another value,
\* one line had no colon, a key is no known entity kind and a known one is missing
C6_Witness ==
    /\ "entities" \in assigned /\ resp["entities"].status = "ok"
    /\ LET lines == splitlines(resp["entities"].text)
           colon == {i \in DOMAIN lines : ":" \in Range(lines[i])}
       IN  /\ \E i \in colon, j \in colon :
                 /\ i < j
                 /\ strip(KeyPart(lines[i])) = strip(KeyPart(lines[j]))
                 /\ strip(ValuePart(lines[i])) # strip(ValuePart(lines[j]))
                 /\ entities[strip(KeyPart(lines[j]))] = strip(ValuePart(lines[j]))
           /\ \E i \in DOMAIN lines : i \notin colon /\ lines[i] # <<>>
    /\ \E k \in DOMAIN entities : k \notin EMAIL_ENTITIES
    /\ \E k \in EMAIL_ENTITIES : k \notin DOMAIN entities

\* C7: the score calculate_similarity_score returned is match/total, or 0.0
\* when total = 0, where total counts the keys of expected that extracted
\* has too and match those of them with equal values; it lies in [0,1], and
\* it is the score of the two mappings cut down to their common keys.
C7_SimilarityScore ==
    "similarity_score" \in assigned =>
        LET common   == DOMAIN expected_entities \cap DOMAIN entities
            total    == Cardinality(common)
            match    == Cardinality({k \in common : entities[k] = expected_entities[k]})
            cut(d)   == [k \in common |-> d[k]]
        IN  /\ 0 <= match /\ match <= total
            /\ similarity_score = IF total > 0
                                  THEN [num |-> match, den |-> total]
                                  ELSE [num |-> 0, den |-> 1]
            /\ 0 <= similarity_score.num
            /\ similarity_score.num <= similarity_score.den
            /\ calculate_similarity_score(cut(entities), cut(expected_entities))
                   = similarity_score

\* a score strictly between 0 and 1 with keys on either side the other lacks
C7_Witness ==
    /\ "similarity_score" \in assigned
    /\ 0 < similarity_score.num /\ similarity_score.num < similarity_score.den
    /\ (DOMAIN expected_entities) \ (DOMAIN entities) # {}
    /\ (DOMAIN entities) \ (DOMAIN expected_entities) # {}

\* C8: normalizing the normalized body changes nothing; removing the tags of
\* the body leaves no removable tag; the normalized body has no whitespace
\* at either end and no two whitespace characters in a row.
C8_CleanIdempotent ==
    "cleaned_content" \in assigned =>
        /\ cleaned_content = clean_email_content(email_content)
        /\ clean_email_content(cleaned_content) = cleaned_content
        /\ sub_tags(sub_tags(email_content)) = sub_tags(email_content)
        /\ cleaned_content # <<>> =>
              /\ cleaned_content[1] \notin Whitespace
              /\ cleaned_content[Len(cleaned_content)] \notin Whitespace
        /\ \A i \in 1..(Len(cleaned_content) - 1) :
              ~(cleaned_content[i] \in Whitespace /\ cleaned_content[i + 1] \in Whitespace)

\* a body with a tag nested in a tag and whitespace to collapse was normalized
C8_Witness ==
    /\ "cleaned_content" \in assigned
    /\ email_content = <<"<", "<", "a", ">", " ", ">">>
    /\ cleaned_content = <<">">>

StepOrder ==
    <<"read", "metadata", "body", "decode", "clean", "classify", "entities",
      "intent", "sentiment", "summarize", "route", "score">>

\* the steps logged for entry m, in order
StepsOf(m) ==
    LET mine == SelectSeq(log, LAMBDA e : e[1] = m)
    IN  [i \in DOMAIN mine |-> mine[i][2]]

IsPrefix(s, t) == Len(s) <= Len(t) /\ \A i \in DOMAIN s : s[i] = t[i]

\* C9: the steps of one message are a prefix of the fixed order (metadata,
\* body, normalize, classify, entities, intent, sentiment, summarize, route,
\* score), cut short only by its caught error; route_email runs with all five
\* analysis fields bound; and a step of a later entry is never logged before
\* the entry in hand has ended in its score or in its caught error.
C9_Sequential ==
    /\ \A m \in 1..idx :
          LET steps == StepsOf(m)
          IN  \/ IsPrefix(steps, StepOrder)
              \/ /\ steps # <<>>
                 /\ steps[Len(steps)] \in {"error", "read_error"}
                 /\ IsPrefix(SubSeq(steps, 1, Len(steps) - 1), StepOrder)
    /\ \A i \in DOMAIN log :
          log[i][2] = "route" =>
              \A q \in {"classify", "entities", "intent", "sentiment", "summarize"} :
                  \E j \in 1..(i - 1) : log[j] = <<log[i][1], q>>
    /\ Routed => {"category", "entities", "intent", "sentiment", "summary"} \subseteq assigned
    /\ \A i \in 1..(Len(log) - 1) :
          /\ log[i][1] <= log[i + 1][1]
          /\ log[i][1] # log[i + 1][1] => log[i][2] \in {"score", "error", "read_error"}

\* a second message is past its routing after the first was routed and scored
C9_Witness ==
    /\ idx = 2
    /\ Routed
    /\ outcome[1] = "routed"
    /\ <<2, "route">> \in Range(log)

\* C10: a routed message whose classification call raised is in the Customer
\* Service Department with no action; a message is in the General Inquiry
\* Department only if its classification call returned and the trimmed reply
\* is none of the nine category labels.
C10_DegradedClassification ==
    Routed =>
        /\ resp["classify"].status = "raised" =>
              destination = "Customer Service Department" /\ DOMAIN actions = {}
        /\ destination = "General Inquiry Department" =>
              /\ resp["classify"].status = "ok"
              /\ strip(resp["classify"].text) \notin EMAIL_CATEGORIES

\* a reply padded with whitespace around a label was routed by that label
C10_Witness ==
    /\ Routed
    /\ resp["classify"] = Returned(<<" ", "Complaint", "\n">>)
    /\ destination = "Customer Relations Department"

=============================================================================
